---- MODULE Spec2Model ----
(***************************************************************************)
(* A model of yamc_apache/providers/access_log.py: the chunked binary      *)
(* search and the sequential chunked read of find_entries over the bytes   *)
(* of an access log, and the per-id window cache of AccessLogProvider.     *)
(*                                                                         *)
(* The access log is a sequence of bytes.  A byte is the newline NL, a     *)
(* timestamp byte (a positive integer: the instant the line was received,  *)
(* which also stands for the first digit of the time_us field), a further  *)
(* DIGIT of that field, a DASH in it, a JUNK byte, or one of the two bytes  *)
(* LEAD and CONT that encode the one non-ASCII character WIDE in UTF-8.    *)
(* The line parser accepts exactly the lines made of one timestamp         *)
(* character followed by DIGIT, DASH and WIDE characters.  Instants are    *)
(* counted in ticks, TicksPerMinute of them to the minute.                 *)
(***************************************************************************)
EXTENDS Integers, Sequences, FiniteSets, TLC

\* ------------------------------------------------------------------ bounds
MaxT == 2
MaxLines == 3
MaxPad == 3
MaxNow == 7
MaxAttempted == 100
TicksPerMinute == 2
MaxChunk == 7
MaxDelta == 7
MaxClock == 30

\* ------------------------------------------------------------------- bytes
NL == 0
DIGIT == -1
DASH == -2
JUNK == -3
LEAD == -4
CONT == -5
WIDE == -6

None == <<>>
Some(x) == <<x>>
Val(o) == o[1]

Min(a, b) == IF a < b THEN a ELSE b

\* f.seek(pos); f.read(n): at most n bytes from offset pos, fewer at end of file
Read(f, pos, n) == SubSeq(f, pos + 1, Min(pos + n, Len(f)))

\* b is well-formed UTF-8: every LEAD byte is followed by its CONT byte and
\* every CONT byte follows its LEAD byte
ValidUtf8(b) ==
    \A i \in 1..Len(b) :
        /\ b[i] = LEAD => (i < Len(b) /\ b[i + 1] = CONT)
        /\ b[i] = CONT => (i > 1 /\ b[i - 1] = LEAD)

\* the characters of well-formed bytes: a LEAD CONT pair is the one character WIDE
Chars(b) ==
    LET kept == SelectSeq([i \in 1..Len(b) |-> IF b[i] = LEAD THEN WIDE ELSE b[i]],
                          LAMBDA c : c # CONT)
    IN  kept

\* bytes.decode("utf-8"): the characters, or None for UnicodeDecodeError
Decode(b) == IF ValidUtf8(b) THEN Some(Chars(b)) ELSE None

\* chunk.split("\n")
RECURSIVE Split(_)
Split(s) ==
    IF \A i \in 1..Len(s) : s[i] # NL
    THEN <<s>>
    ELSE LET i == CHOOSE j \in 1..Len(s) : s[j] = NL /\ \A k \in 1..(j - 1) : s[k] # NL
         IN  <<SubSeq(s, 1, i - 1)>> \o Split(SubSeq(s, i + 1, Len(s)))

\* log_parser.parse(l) does not raise LineDoesntMatchException
Matches(l) ==
    /\ Len(l) >= 1
    /\ l[1] > 0
    /\ \A i \in 2..Len(l) : l[i] \in {DIGIT, DASH, WIDE}

\* log_parser.parse(l): the mapping of a line that matches
Parse(l) ==
    [time_received_datetimeobj |-> l[1], time_us |-> <<DIGIT>> \o SubSeq(l, 2, Len(l))]

\* ------------------------------------------------- find_entries: the search
\* the for loop over lines[1:-1] of one probe, from interior line i on
RECURSIVE ScanChunk(_, _, _, _, _, _)
ScanChunk(ls, i, tf, chunk_pos, first_pos, second_pos) ==
    IF i > Len(ls)
    THEN [first_pos |-> first_pos, second_pos |-> second_pos]
    ELSE IF ~Matches(ls[i])
    THEN ScanChunk(ls, i + 1, tf, chunk_pos, first_pos, second_pos)
    ELSE LET dt == Parse(ls[i]).time_received_datetimeobj
             fp == IF tf <= dt THEN Some(chunk_pos) ELSE first_pos
             sp == IF tf > dt THEN Some(chunk_pos) ELSE second_pos
         IN  IF fp # None /\ sp # None
             THEN [first_pos |-> fp, second_pos |-> sp]
             ELSE ScanChunk(ls, i + 1, tf, chunk_pos + Len(ls[i]) + 1, fp, sp)

\* one iteration of the binary search as it would be if the probe read
\* chunk_size bytes whatever is left of the interval
SearchStepFullChunk(f, cs, tf, s, e) ==
    LET pos == s + (e - s) \div 2
        chunk == Decode(Read(f, pos, cs))
        lines == Split(Val(chunk))
        interior == SubSeq(lines, 2, Len(lines) - 1)
        step(brk, start, end, first_pos, raised) ==
            [brk |-> brk, start |-> start, end |-> end, first_pos |-> first_pos,
             raised |-> raised]
    IN  IF chunk = None
        THEN step(TRUE, s, e, None, TRUE)
        ELSE IF Len(interior) = 0
        THEN step(TRUE, s, e, None, FALSE)
        ELSE LET r == ScanChunk(interior, 1, tf, pos + Len(lines[1]) + 1, None, None)
             IN  IF r.second_pos = None
                 THEN step(FALSE, s, pos, r.first_pos, FALSE)
                 ELSE IF r.first_pos = None
                 THEN step(FALSE, pos, e, r.first_pos, FALSE)
                 ELSE step(TRUE, s, e, r.first_pos, FALSE)

\* one iteration of the while True loop of the binary search
SearchStep(f, cs, tf, s, e) ==
    LET pos == s + (e - s) \div 2
        chunk == Decode(Read(f, pos, Min(cs, e - s)))
        lines == Split(Val(chunk))
        interior == SubSeq(lines, 2, Len(lines) - 1)
        step(brk, start, end, first_pos, raised) ==
            [brk |-> brk, start |-> start, end |-> end, first_pos |-> first_pos,
             raised |-> raised]
    IN  IF chunk = None
        THEN step(TRUE, s, e, None, TRUE)
        ELSE IF Len(interior) = 0
        THEN step(TRUE, s, e, None, FALSE)
        ELSE LET r == ScanChunk(interior, 1, tf, pos + Len(lines[1]) + 1, None, None)
             IN  IF r.second_pos = None
                 THEN step(FALSE, s, pos, r.first_pos, FALSE)
                 ELSE IF r.first_pos = None
                 THEN step(FALSE, pos, e, r.first_pos, FALSE)
                 ELSE step(TRUE, s, e, r.first_pos, FALSE)

\* the whole binary search: the step at which the while True loop is left, by
\* a break or by the UnicodeDecodeError of decode
RECURSIVE Search(_, _, _, _, _)
Search(f, cs, tf, s, e) ==
    LET r == SearchStep(f, cs, tf, s, e)
    IN  IF r.brk THEN r ELSE Search(f, cs, tf, r.start, r.end)

\* --------------------------------------------------- find_entries: the read
\* the for loop over the lines of one chunk, from line i on; st holds entries,
\* num_errors, num_lines and done
RECURSIVE ReadLines(_, _, _, _)
ReadLines(ls, i, tt, st) ==
    IF i > Len(ls)
    THEN st
    ELSE IF ls[i] = <<>>
    THEN ReadLines(ls, i + 1, tt, st)
    ELSE IF ~Matches(ls[i])
    THEN ReadLines(ls, i + 1, tt, [st EXCEPT !.num_errors = @ + 1])
    ELSE LET parts == Parse(ls[i])
             counted == [st EXCEPT !.num_lines = @ + 1]
         IN  IF parts.time_received_datetimeobj < tt
             THEN ReadLines(ls, i + 1, tt, [counted EXCEPT !.entries = Append(@, parts)])
             ELSE [counted EXCEPT !.done = TRUE]

\* one iteration of the while not done loop; r holds fpos (the file position,
\* in bytes), reminder, entries, num_errors, num_lines, done and raised (decode
\* raises UnicodeDecodeError, chunk[-1] of an empty chunk raises IndexError)
ReadStep(f, cs, tt, r) ==
    LET bytes == Read(f, r.fpos, cs)
        chunk == Val(Decode(bytes))
    IN  IF Decode(bytes) = None
        THEN [r EXCEPT !.raised = "UnicodeDecodeError"]
        ELSE IF Len(chunk) = 0
        THEN [r EXCEPT !.raised = "IndexError"]
        ELSE LET split == Split(chunk)
                 lines == [split EXCEPT ![1] = r.reminder \o @]
                 has_reminder == chunk[Len(chunk)] # NL
                 todo == IF has_reminder THEN SubSeq(lines, 1, Len(lines) - 1) ELSE lines
                 st == ReadLines(todo, 1, tt,
                                 [entries |-> r.entries, num_errors |-> r.num_errors,
                                  num_lines |-> r.num_lines, done |-> FALSE])
             IN  [fpos |-> r.fpos + Len(bytes),
                  reminder |-> IF has_reminder THEN lines[Len(lines)] ELSE <<>>,
                  entries |-> st.entries,
                  num_errors |-> st.num_errors,
                  num_lines |-> st.num_lines,
                  done |-> st.done \/ Len(chunk) < cs,
                  raised |-> "no"]

\* the locals of the read as f.seek(first_pos) leaves them
ReadInit(first_pos) ==
    [fpos |-> first_pos, reminder |-> <<>>, entries |-> <<>>, num_errors |-> 0,
     num_lines |-> 0, done |-> FALSE, raised |-> "no"]

\* the whole while not done loop
RECURSIVE ReadAll(_, _, _, _)
ReadAll(f, cs, tt, r) ==
    IF r.done \/ r.raised # "no" THEN r ELSE ReadAll(f, cs, tt, ReadStep(f, cs, tt, r))

\* parser_errors_threshold = 0.2, as the fraction ThresholdNum / ThresholdDen
ThresholdNum == 1
ThresholdDen == 5

\* num_lines > 0 and num_errors / num_lines > parser_errors_threshold
TooManyErrors(num_errors, num_lines) ==
    num_lines > 0 /\ num_errors * ThresholdDen > num_lines * ThresholdNum

\* what a call of find_entries ends with: None, the entries, or an exception
Outcome(kind, entries) == [kind |-> kind, entries |-> entries]

\* the statements after the with block
CheckErrors(r) ==
    IF TooManyErrors(r.num_errors, r.num_lines)
    THEN Outcome("OperationalError", <<>>)
    ELSE Outcome("entries", r.entries)

\* find_entries(access_log, log_parser, time_from, time_to, chunk_size)
find_entries(f, tf, tt, cs) ==
    LET s == Search(f, cs, tf, 0, Len(f))
    IN  IF s.raised
        THEN Outcome("UnicodeDecodeError", <<>>)
        ELSE IF s.first_pos = None
        THEN Outcome("None", <<>>)
        ELSE LET r == ReadAll(f, cs, tt, ReadInit(Val(s.first_pos)))
             IN  IF r.raised # "no" THEN Outcome(r.raised, <<>>) ELSE CheckErrors(r)

\* ------------------------------------------------------------ the log files
\* the lines about the window: a bare timestamp, junk, or a timestamp and a
\* non-ASCII character
LogLines == {<<t>> : t \in 1..MaxT} \cup {<<JUNK>>, <<MaxT, LEAD, CONT>>}

\* the lines far from the window: the earliest and the latest instant
OldLine == <<1, DIGIT>>
NewLine == <<MaxT>>

\* the timestamps of the lines that match, in file order
RECURSIVE Stamps(_)
Stamps(ls) ==
    IF ls = <<>> THEN <<>>
    ELSE (IF Matches(Chars(Head(ls))) THEN <<Head(ls)[1]>> ELSE <<>>) \o Stamps(Tail(ls))

TimeOrdered(ls) ==
    LET ts == Stamps(ls) IN \A i \in 1..(Len(ts) - 1) : ts[i] <= ts[i + 1]

\* the bytes of a file of the lines ls, each line ended by a newline
RECURSIVE Bytes(_)
Bytes(ls) == IF ls = <<>> THEN <<>> ELSE Head(ls) \o <<NL>> \o Bytes(Tail(ls))

\* n copies of the line l
Rep(l, n) == [i \in 1..n |-> l]

\* the access logs: up to MaxPad old lines, up to MaxLines time-ordered lines
\* about the window, up to MaxPad new lines; the last line of the file with or
\* without its newline
Files ==
    LET seqs == UNION {[1..n -> LogLines] : n \in 0..MaxLines}
        ordered == {Rep(OldLine, a) \o ls \o Rep(NewLine, b) :
                        a \in 0..MaxPad, b \in 0..MaxPad,
                        ls \in {l \in seqs : TimeOrdered(l)}}
    IN  {Bytes(ls) : ls \in ordered}
        \cup {SubSeq(Bytes(ls), 1, Len(Bytes(ls)) - 1) : ls \in ordered \ {<<>>}}

\* the logs of the provider, with lines of the instants 1 to 4: in the window
\* [2, 4) and then in [4, 6) find_entries, with chunks of 7 bytes, ends with
\* 2 and 1 records; no and 3 records; OperationalError and None; 1 record and
\* OperationalError; IndexError and None; 2 records, one with no number, and None;
\* 2 records of different time_us, the larger first, and 1 record
Logs ==
    {Bytes(<<OldLine, <<1>>, <<2>>, <<2>>, <<4>>>>),
     Bytes(<<OldLine, <<1>>, <<1>>, <<2, DIGIT>>, <<2>>, <<4>>>>),
     Bytes(<<OldLine, <<1>>, <<4>>, <<4>>, <<4>>>>),
     Bytes(<<OldLine, <<1>>, <<2>>, <<JUNK>>, <<JUNK>>>>),
     Bytes(<<OldLine, OldLine, <<1>>, <<2>>, <<4>>, <<JUNK>>>>),
     Bytes(<<OldLine, OldLine, <<1>>, <<2>>, <<JUNK>>, <<3, DASH>>>>),
     Bytes(<<OldLine, <<1>>, <<2>>, <<3, DASH>>>>)}

\* ---------------------------------------------------------------- the state
VARIABLES
    file,         \* the bytes of the access log
    time_from,    \* find_entries: the arguments
    time_to,
    chunk_size,
    pc,           \* find_entries: "search", "read", "check", "done"
    start,        \* find_entries: the locals of the binary search
    end,
    first_pos,
    probes,       \* find_entries: the iterations of the binary search so far
    fpos,         \* find_entries: the position of f in the sequential read
    reminder,     \* find_entries: the locals of the sequential read
    entries,
    num_errors,
    num_lines,
    result,       \* what find_entries returned or raised
    simulated_time,        \* AccessLogProvider: the configured clock
    simulated_time_delta,
    _time,        \* AccessLogProvider._time
    data,         \* AccessLogProvider.data: id -> Map(data, time_from, time_to, updated_time)
    ret,          \* the latest request and what it returned or raised
    found         \* window -> what find_entries ends with on file, worked out once

findVars == <<file, time_from, time_to, chunk_size, pc, start, end, first_pos, probes,
              fpos, reminder, entries, num_errors, num_lines, result>>

provVars == <<simulated_time, simulated_time_delta, _time, data, ret, found>>

vars == <<findVars, provVars>>

Running == Outcome("running", <<>>)

Ids == {"a", "b"}

\* no request served yet
NoRequest ==
    [op |-> "none", id |-> "none", time_delta |-> 1, scanned |-> FALSE, raised |-> "no",
     group |-> <<>>, filters |-> <<>>, df |-> None, rows |-> None]

\* AccessLogProvider.__init__ with the real clock, before any request
ProviderIdle ==
    /\ simulated_time = None
    /\ simulated_time_delta = 1
    /\ _time = None
    /\ data = <<>>
    /\ ret = NoRequest
    /\ found = <<>>

\* a call find_entries(file, log_parser, time_from, time_to, chunk_size) begins
InitFind ==
    /\ file \in Files
    /\ time_from \in 1..(MaxT + 1)
    /\ time_to \in (time_from + 1)..(MaxT + 1) \cup {time_from + 1}
    /\ chunk_size \in 1..MaxChunk
    /\ pc = "search"
    /\ start = 0
    /\ end = Len(file)
    /\ first_pos = None
    /\ probes = 0
    /\ fpos = 0
    /\ reminder = <<>>
    /\ entries = <<>>
    /\ num_errors = 0
    /\ num_lines = 0
    /\ result = Running
    /\ ProviderIdle

\* one probe of the binary search; a break leaves the loop, returns None or seeks
Probe ==
    /\ pc = "search"
    /\ LET r == SearchStep(file, chunk_size, time_from, start, end)
       IN  /\ start' = r.start
           /\ end' = r.end
           /\ first_pos' = r.first_pos
           /\ probes' = probes + 1
           /\ IF ~r.brk
              THEN /\ pc' = "search"
                   /\ UNCHANGED <<fpos, result>>
              ELSE IF r.raised
              THEN /\ pc' = "done"
                   /\ result' = Outcome("UnicodeDecodeError", <<>>)
                   /\ UNCHANGED fpos
              ELSE IF r.first_pos = None
              THEN /\ pc' = "done"
                   /\ result' = Outcome("None", <<>>)
                   /\ UNCHANGED fpos
              ELSE /\ pc' = "read"
                   /\ fpos' = Val(r.first_pos)
                   /\ UNCHANGED result
    /\ UNCHANGED <<file, time_from, time_to, chunk_size, reminder, entries,
                   num_errors, num_lines>>
    /\ UNCHANGED provVars

\* one chunk of the sequential read
ReadChunk ==
    /\ pc = "read"
    /\ LET r == ReadStep(file, chunk_size, time_to,
                         [fpos |-> fpos, reminder |-> reminder, entries |-> entries,
                          num_errors |-> num_errors, num_lines |-> num_lines,
                          done |-> FALSE, raised |-> "no"])
       IN  IF r.raised # "no"
           THEN /\ pc' = "done"
                /\ result' = Outcome(r.raised, <<>>)
                /\ UNCHANGED <<fpos, reminder, entries, num_errors, num_lines>>
           ELSE /\ fpos' = r.fpos
                /\ reminder' = r.reminder
                /\ entries' = r.entries
                /\ num_errors' = r.num_errors
                /\ num_lines' = r.num_lines
                /\ pc' = IF r.done THEN "check" ELSE "read"
                /\ UNCHANGED result
    /\ UNCHANGED <<file, time_from, time_to, chunk_size, start, end, first_pos, probes>>
    /\ UNCHANGED provVars

\* the error-rate check and the return
Check ==
    /\ pc = "check"
    /\ result' = CheckErrors([num_errors |-> num_errors, num_lines |-> num_lines,
                              entries |-> entries])
    /\ pc' = "done"
    /\ UNCHANGED <<file, time_from, time_to, chunk_size, start, end, first_pos, probes,
                   fpos, reminder, entries, num_errors, num_lines>>
    /\ UNCHANGED provVars

NextFind == Probe \/ ReadChunk \/ Check

SpecFind == InitFind /\ [][NextFind]_vars

\* ---------------------------------------- the read, line by line, as counts
\* the read of a window of up to MaxAttempted lines, each line counted as it is
\* handed to the parser
InitCount ==
    /\ file = <<>>
    /\ time_from = 0
    /\ time_to = 0
    /\ chunk_size = MaxChunk
    /\ pc = "read"
    /\ start = 0
    /\ end = 0
    /\ first_pos = Some(0)
    /\ probes = 0
    /\ fpos = 0
    /\ reminder = <<>>
    /\ entries = <<>>
    /\ num_errors = 0
    /\ num_lines = 0
    /\ result = Running
    /\ ProviderIdle

\* a line that parses: num_lines += 1
LineParsed ==
    /\ pc = "read"
    /\ num_errors + num_lines < MaxAttempted
    /\ num_lines' = num_lines + 1
    /\ UNCHANGED <<file, time_from, time_to, chunk_size, pc, start, end, first_pos, probes, fpos,
                   reminder, entries, num_errors, result>>
    /\ UNCHANGED provVars

\* a line that raises LineDoesntMatchException: num_errors += 1
LineFailed ==
    /\ pc = "read"
    /\ num_errors + num_lines < MaxAttempted
    /\ num_errors' = num_errors + 1
    /\ UNCHANGED <<file, time_from, time_to, chunk_size, pc, start, end, first_pos, probes, fpos,
                   reminder, entries, num_lines, result>>
    /\ UNCHANGED provVars

\* the last chunk is read: done
ReadDone ==
    /\ pc = "read"
    /\ pc' = "check"
    /\ UNCHANGED <<file, time_from, time_to, chunk_size, start, end, first_pos, probes, fpos,
                   reminder, entries, num_errors, num_lines, result>>
    /\ UNCHANGED provVars

NextCount == LineParsed \/ LineFailed \/ ReadDone \/ Check

SpecCount == InitCount /\ [][NextCount]_vars

\* ------------------------------------------------------- AccessLogProvider
MinutesPerHour == 60

\* round_time_minutes as it would be if replace() kept the seconds
round_time_keeps_seconds(time, minutes) ==
    LET minute == (time \div TicksPerMinute) % MinutesPerHour
    IN  time - (minute - (minute \div minutes) * minutes) * TicksPerMinute

\* round_time_minutes(time, minutes)
round_time_minutes(time, minutes) ==
    LET minute == (time \div TicksPerMinute) % MinutesPerHour
        rounded_minutes == (minute \div minutes) * minutes
    IN  (time - (time % (MinutesPerHour * TicksPerMinute))) + rounded_minutes * TicksPerMinute

\* time() as it would be if the first call stepped the simulated clock as well
TimeValuesStepFirst ==
    IF simulated_time # None
    THEN {(IF _time = None THEN Val(simulated_time) ELSE Val(_time))
              + simulated_time_delta * TicksPerMinute}
    ELSE {t \in TicksPerMinute..MaxNow : _time = None \/ t >= Val(_time)}

\* the values AccessLogProvider.time() may return and leave in _time: the next
\* step of the simulated clock, or a reading of datetime.now()
TimeValues ==
    IF simulated_time # None
    THEN IF _time = None
         THEN {Val(simulated_time)}
         ELSE {Val(_time) + simulated_time_delta * TicksPerMinute}
    ELSE {t \in TicksPerMinute..MaxNow : _time = None \/ t >= Val(_time)}

numeric_fields ==
    {"time_s", "response_bytes", "response_bytes_clf", "time_us", "num_keepalives",
     "bytes_rx", "bytes_tx"}

\* pd.DataFrame(entries): the columns are the keys of the records
DataFrame(rows) ==
    [columns |-> UNION {DOMAIN rows[i] : i \in 1..Len(rows)}, rows |-> rows]

\* pd.to_numeric(v, errors="coerce"): a number, or None for NaN; the number of
\* a field of digits is modelled by its width
to_numeric(v) == IF \A i \in 1..Len(v) : v[i] = DIGIT THEN Some(Len(v)) ELSE None

\* the numeric fields of the frame coerced, the rows with a NaN dropped
CoerceNumeric(df) ==
    LET _fields == df.columns \cap numeric_fields
        ok(row) == \A nf \in _fields : to_numeric(row[nf]) # None
        num(row) == [k \in DOMAIN row |->
                        IF k \in _fields THEN Val(to_numeric(row[k])) ELSE row[k]]
        kept == SelectSeq(df.rows, ok)
    IN  [columns |-> df.columns, rows |-> [i \in 1..Len(kept) |-> num(kept[i])]]

\* Map(data=None, time_from=None, time_to=None)
NewEntry == [data |-> None, time_from |-> None, time_to |-> None, updated_time |-> None]

\* the Map of id that update works on
EntryOf(id) == IF id \in DOMAIN data THEN data[id] ELSE NewEntry

\* the assignment self.data[id] = data as it would be if it began a new Map
StoreAlone(id, e) == [k \in {id} |-> e]

\* data with the Map of id replaced by e
Store(id, e) == [k \in DOMAIN data \cup {id} |-> IF k = id THEN e ELSE data[k]]

\* the time_delta arguments of the requests
Deltas == {1}

\* the windows update can ask for
Windows ==
    {<<round_time_minutes(t - g * TicksPerMinute, g), round_time_minutes(t, g)>> :
        t \in TicksPerMinute..MaxNow, g \in Deltas}

\* find_entries(self.access_log, self.log_parser, time_from, time_to) for every
\* window, on a log that does not change
EntriesOf(f, cs) == [w \in Windows |-> find_entries(f, w[1], w[2], cs)]

\* find_entries on the access log, or the OSError of open or read
Found(io_error, tf, tt) ==
    IF io_error THEN Outcome("OSError", <<>>) ELSE found[<<tf, tt>>]

\* update(id, time_delta) once time() has returned t: the new self.data, whether
\* find_entries was called, and what was raised; time.time() is read off the
\* same clock
UpdateWith(id, time_delta, t, io_error) ==
    LET e == EntryOf(id)
    IN  IF e.data = None \/ t > Val(e.time_to)
        THEN LET tf == round_time_minutes(t - time_delta * TicksPerMinute, time_delta)
                 tt == round_time_minutes(t, time_delta)
                 windowed == [e EXCEPT !.time_from = Some(tf), !.time_to = Some(tt)]
                 r == Found(io_error, tf, tt)
             IN  IF r.kind \notin {"None", "entries"}
                 THEN [data |-> IF id \in DOMAIN data THEN Store(id, windowed) ELSE data,
                       scanned |-> TRUE, raised |-> r.kind]
                 ELSE IF r.kind = "entries"
                 THEN [data |-> Store(id, [windowed EXCEPT
                                              !.data = Some(CoerceNumeric(DataFrame(r.entries))),
                                              !.updated_time = Some(t)]),
                       scanned |-> TRUE, raised |-> "no"]
                 ELSE [data |-> Store(id, [windowed EXCEPT !.data = None,
                                                           !.updated_time = None]),
                       scanned |-> TRUE, raised |-> "no"]
        ELSE [data |-> data, scanned |-> FALSE, raised |-> "no"]

\* update(id, time_delta) with t what time() returns
UpdateAt(id, time_delta, t, io_error) ==
    LET u == UpdateWith(id, time_delta, t, io_error)
    IN  /\ io_error => u.scanned
        /\ _time' = Some(t)
        /\ data' = u.data
        /\ ret' = [op |-> "update", id |-> id, time_delta |-> time_delta,
                   scanned |-> u.scanned, raised |-> u.raised,
                   group |-> <<>>, filters |-> <<>>, df |-> None, rows |-> None]

\* a request update(id, time_delta)
Update(id, time_delta, io_error) ==
    /\ \E t \in TimeValues :
        /\ t <= MaxNow
        /\ UpdateAt(id, time_delta, t, io_error)
    /\ UNCHANGED <<findVars, simulated_time, simulated_time_delta, found>>

\* the tuple of the values of the row at the group fields
GroupKey(row, group) == [i \in 1..Len(group) |-> row[group[i]]]

\* the order of the group keys: tuples of numbers, compared left to right
RECURSIVE KeyLess(_, _)
KeyLess(a, b) ==
    /\ a # <<>>
    /\ \/ Head(a) < Head(b)
       \/ Head(a) = Head(b) /\ KeyLess(Tail(a), Tail(b))

\* the keys in increasing order, as df.groupby(group) iterates over its groups
RECURSIVE SortedKeys(_)
SortedKeys(keys) ==
    IF keys = {} THEN <<>>
    ELSE LET least == CHOOSE k \in keys : \A o \in keys \ {k} : KeyLess(k, o)
         IN  <<least>> \o SortedKeys(keys \ {least})

\* the filter step as it would be if a field that is no column failed a
\* constraint
FilteredStrict(df, filters) ==
    LET passes(row) == \E i \in 1..Len(filters) :
                           \A k \in DOMAIN filters[i] :
                               k \in df.columns /\ row[k] = filters[i][k]
    IN  IF filters = <<>> THEN df.rows ELSE SelectSeq(df.rows, passes)

\* the rows a constraint set or another of filters lets through
Filtered(df, filters) ==
    LET passes(row) == \E i \in 1..Len(filters) :
                           \A k \in DOMAIN filters[i] :
                               k \in df.columns => row[k] = filters[i][k]
    IN  IF filters = <<>> THEN df.rows ELSE SelectSeq(df.rows, passes)

\* the body of stats after update, on the frame df cached for id with time_from
\* time: the rows of df after the filter step, then KeyError when a group field
\* is no column of the frame, else one row for each group with the reducer len
Aggregate(df, id, time, group, filters) ==
    LET rows == Filtered(df, filters)
        keys == SortedKeys({GroupKey(rows[i], group) : i \in 1..Len(rows)})
        size(k) == Cardinality({i \in 1..Len(rows) : GroupKey(rows[i], group) = k})
    IN  IF \E i \in 1..Len(group) : group[i] \notin df.columns
        THEN [raised |-> "KeyError", df |-> Some(rows), rows |-> None]
        ELSE [raised |-> "no", df |-> Some(rows),
              rows |-> Some([j \in 1..Len(keys) |->
                               [id |-> id, time |-> time, group_key |-> keys[j],
                                count |-> size(keys[j])]])]

\* the group and filters arguments of the requests: host is a field that the
\* records do not have
Requests ==
    {[group |-> <<"time_us">>, filters |-> <<>>],
     [group |-> <<"time_us">>, filters |-> <<[time_us |-> 2, host |-> 1]>>],
     [group |-> <<"time_us">>, filters |-> <<[time_us |-> 3], [time_us |-> 1]>>],
     [group |-> <<"host">>, filters |-> <<>>]}

\* a request stats(id, time_delta, group, stats_def, filters)
Stats(id, time_delta, group, filters, io_error) ==
    /\ \E t \in TimeValues :
        /\ t <= MaxNow
        /\ LET u == UpdateWith(id, time_delta, t, io_error)
               agg == IF u.raised # "no"
                      THEN [raised |-> u.raised, df |-> None, rows |-> None]
                      ELSE IF u.data[id].data = None
                      THEN [raised |-> "no", df |-> None, rows |-> Some(<<>>)]
                      ELSE Aggregate(Val(u.data[id].data), id, Val(u.data[id].time_from),
                                     group, filters)
           IN  /\ io_error => u.scanned
               /\ _time' = Some(t)
               /\ data' = u.data
               /\ ret' = [op |-> "stats", id |-> id, time_delta |-> time_delta,
                          scanned |-> u.scanned, raised |-> agg.raised,
                          group |-> group, filters |-> filters, df |-> agg.df,
                          rows |-> agg.rows]
    /\ UNCHANGED <<findVars, simulated_time, simulated_time_delta, found>>

\* AccessLogProvider.__init__: the log, the clock, no data
Init ==
    /\ file \in Logs
    /\ chunk_size = MaxChunk
    /\ simulated_time \in {None, Some(TicksPerMinute), Some(2 * TicksPerMinute)}
    /\ simulated_time_delta = 1
    /\ _time = None
    /\ data = <<>>
    /\ ret = NoRequest
    /\ found = EntriesOf(file, chunk_size)
    /\ time_from = 0
    /\ time_to = 0
    /\ pc = "idle"
    /\ start = 0
    /\ end = 0
    /\ first_pos = None
    /\ probes = 0
    /\ fpos = 0
    /\ reminder = <<>>
    /\ entries = <<>>
    /\ num_errors = 0
    /\ num_lines = 0
    /\ result = Running

Next ==
    \E id \in Ids, time_delta \in Deltas, io_error \in BOOLEAN :
        \/ Update(id, time_delta, io_error)
        \/ \E rq \in Requests :
               Stats(id, time_delta, rq.group, rq.filters, io_error)

Spec == Init /\ [][Next]_vars

\* ------------------------------------------- the windows of AccessLogProvider
\* update with the real clock read at any instant within MaxClock ticks of the
\* turn of an hour, and any granularity: a few minutes, the hour, and more than
\* the hour; the log is empty, so every call refreshes the window
Granularities == (1..MaxDelta) \cup {MinutesPerHour, MinutesPerHour + MaxDelta}

\* the turn of the hour that the readings of the clock surround
ClockOrigin == 2 * MinutesPerHour * TicksPerMinute

ClockValues == (ClockOrigin - MaxClock)..(ClockOrigin + MaxClock)

WindowsOfClock ==
    {<<round_time_minutes(t - g * TicksPerMinute, g), round_time_minutes(t, g)>> :
        t \in ClockValues, g \in Granularities}

InitWindow ==
    /\ file = <<>>
    /\ chunk_size = MaxChunk
    /\ simulated_time = None
    /\ simulated_time_delta = 1
    /\ _time = None
    /\ data = <<>>
    /\ ret = NoRequest
    /\ found = [w \in WindowsOfClock |-> find_entries(file, w[1], w[2], chunk_size)]
    /\ time_from = 0
    /\ time_to = 0
    /\ pc = "idle"
    /\ start = 0
    /\ end = 0
    /\ first_pos = None
    /\ probes = 0
    /\ fpos = 0
    /\ reminder = <<>>
    /\ entries = <<>>
    /\ num_errors = 0
    /\ num_lines = 0
    /\ result = Running

\* a request update(id, time_delta) at a reading of datetime.now()
Refresh(id, time_delta) ==
    /\ \E t \in {u \in ClockValues : _time = None \/ u >= Val(_time)} :
        UpdateAt(id, time_delta, t, FALSE)
    /\ UNCHANGED <<findVars, simulated_time, simulated_time_delta, found>>

NextWindow == \E time_delta \in Granularities : Refresh("a", time_delta)

SpecWindow == InitWindow /\ [][NextWindow]_vars

\* ------------------------------------------------- what the claims speak of
\* the lines of a file, without the empty string a final newline leaves
FileLines(f) ==
    LET ls == Split(f)
    IN  IF ls[Len(ls)] = <<>> THEN SubSeq(ls, 1, Len(ls) - 1) ELSE ls

\* the byte offset at which line i of ls begins
RECURSIVE Offset(_, _)
Offset(ls, i) == IF i = 1 THEN 0 ELSE Offset(ls, i - 1) + Len(ls[i - 1]) + 1

AllParse(f) == \A i \in 1..Len(FileLines(f)) : Matches(Chars(FileLines(f)[i]))

\* the lines of f that match and are received at or after t
AtOrAfter(f, t) ==
    {i \in 1..Len(FileLines(f)) :
        Matches(Chars(FileLines(f)[i])) /\ FileLines(f)[i][1] >= t}

\* the offset of the first line received at or after t, None when there is none
ExpectedStart(f, t) ==
    IF AtOrAfter(f, t) = {}
    THEN None
    ELSE Some(Offset(FileLines(f), CHOOSE i \in AtOrAfter(f, t) : \A j \in AtOrAfter(f, t) : i <= j))

\* C1: for a file whose lines all parse, the binary search ends with first_pos the
\* offset of the first line received at or after time_from, and with None only
\* when no line is (stated for the largest chunk size, which holds several lines)
C1_LocateStart ==
    (pc # "search" /\ AllParse(file) /\ chunk_size = MaxChunk) =>
        first_pos = ExpectedStart(file, time_from)

\* C2: every record find_entries returns lies in [time_from, time_to)
C2_RecordsInWindow ==
    (pc = "done" /\ result.kind = "entries") =>
        \A i \in 1..Len(result.entries) :
            /\ time_from <= result.entries[i].time_received_datetimeobj
            /\ result.entries[i].time_received_datetimeobj < time_to

\* C5: the read raises exactly when a line was attempted and the share of the
\* attempted lines that failed to parse exceeds the threshold
C5_RaisesOnErrorRate ==
    pc = "done" /\ result.kind \in {"entries", "OperationalError"} =>
        (result.kind = "OperationalError" <=>
            /\ num_errors + num_lines > 0
            /\ num_errors * ThresholdDen > (num_errors + num_lines) * ThresholdNum)

\* C10: the read ends with the records or with the error of the error rate
C10_ReadOutcomes ==
    pc = "done" => result.kind \in {"None", "entries", "OperationalError"}

\* the records of what find_entries returned, None counting as no records
Records(r) == r.entries

\* C9: on a file whose lines all parse, the records of [A, B) followed by those
\* of [B, C) are the records of [A, C) (stated for the largest chunk size)
C9_WindowAdjacency ==
    (/\ pc = "done"
     /\ AllParse(file)
     /\ chunk_size = MaxChunk
     /\ result.kind \in {"None", "entries"}) =>
        \A B \in (time_from + 1)..(time_to - 1) :
            LET ab == find_entries(file, time_from, B, chunk_size)
                bc == find_entries(file, B, time_to, chunk_size)
            IN  (ab.kind \in {"None", "entries"} /\ bc.kind \in {"None", "entries"}) =>
                    Records(ab) \o Records(bc) = Records(result)

\* C6: with the threshold 0.2, 79 failures in 100 attempted lines do not raise
\* and 81 in 100 do
C6_ThresholdBoundary ==
    (pc = "done" /\ num_errors + num_lines = 100) =>
        /\ num_errors = 79 => result.kind = "entries"
        /\ num_errors = 81 => result.kind = "OperationalError"

\* the exceptions of a scan: of find_entries, or of the file
ScanFailures == {"OperationalError", "IndexError", "UnicodeDecodeError", "OSError"}

\* C3: of two successive requests for one id whose clock values round down to
\* the same time_to, the first having cached records, the second does not scan
C3_OneScanPerWindow ==
    [][(/\ ret.op # "none"
        /\ ret.raised \notin ScanFailures
        /\ ret.id \in DOMAIN data
        /\ data[ret.id].data # None
        /\ ret'.id = ret.id
        /\ ret'.time_delta = ret.time_delta
        /\ round_time_minutes(Val(_time'), ret.time_delta)
               = round_time_minutes(Val(_time), ret.time_delta))
       => ~ret'.scanned]_vars

\* C4: a request whose scan fails leaves every entry as it was
C4_FailedScanKeepsEntry ==
    [][ret'.raised \in ScanFailures => data' = data]_vars

\* C7: a stats request whose scan did not fail and left no records returns the
\* empty list
C7_StatsEmptyNoRaise ==
    (/\ ret.op = "stats"
     /\ ret.raised \notin ScanFailures
     /\ \/ data[ret.id].data = None
        \/ Val(data[ret.id].data).rows = <<>>)
    => (ret.raised = "no" /\ ret.rows = Some(<<>>))

\* what the scan of the window stored with e ended with
ScanOf(e) == found[<<Val(e.time_from), Val(e.time_to)>>]

\* find_entries returned None, or no record
NoData(r) == r.kind = "None" \/ (r.kind = "entries" /\ r.entries = <<>>)

\* C8: an entry that a scan left empty is cached: the next request for the id
\* does not scan again unless now > its time_to
C8_EmptyIsCached ==
    [][(/\ ret.op # "none"
        /\ ret.scanned
        /\ ret.raised \notin ScanFailures
        /\ NoData(ScanOf(data[ret.id]))
        /\ ret'.id = ret.id
        /\ Val(_time') <= Val(data[ret.id].time_to))
       => ~ret'.scanned]_vars

\* C11: with the simulated clock the first call of time() returns the configured
\* start and every later call returns the previous value plus one step
C11_SimulatedClock ==
    [][simulated_time # None =>
          _time' = IF _time = None
                   THEN simulated_time
                   ELSE Some(Val(_time) + simulated_time_delta * TicksPerMinute)]_vars

\* the third call of time() has returned the start plus two steps
C11_ThirdCall ==
    /\ simulated_time # None
    /\ _time = Some(Val(simulated_time) + 2 * simulated_time_delta * TicksPerMinute)

\* the minute of the hour of an instant
Minute(t) == (t \div TicksPerMinute) % MinutesPerHour

\* an instant with zero seconds whose minute is a multiple of g
OnBoundary(t, g) == t % TicksPerMinute = 0 /\ Minute(t) % g = 0

\* the latest instant on a boundary of g that is not after t
RoundDown(t, g) == CHOOSE b \in (t - MinutesPerHour * TicksPerMinute)..t :
                       OnBoundary(b, g) /\ \A u \in (b + 1)..t : ~OnBoundary(u, g)

\* C12: the window of a refresh at now with granularity g has time_to the latest
\* boundary of g not after now and time_from the latest boundary not after
\* now - g, both with zero seconds and a minute that is a multiple of g, and
\* time_from < time_to <= now
C12_WindowRounding ==
    (ret.op = "update" /\ ret.scanned) =>
        LET e == data[ret.id]
            g == ret.time_delta
            now == Val(_time)
        IN  /\ Val(e.time_to) = RoundDown(now, g)
            /\ Val(e.time_from) = RoundDown(now - g * TicksPerMinute, g)
            /\ OnBoundary(Val(e.time_to), g)
            /\ OnBoundary(Val(e.time_from), g)
            /\ Val(e.time_from) < Val(e.time_to)
            /\ Val(e.time_to) <= now

\* a refresh with a granularity that does not divide the hour, whose window
\* begins in one hour and ends in the next
C12_WindowAcrossHours ==
    /\ ret.op = "update" /\ ret.scanned
    /\ MinutesPerHour % ret.time_delta # 0
    /\ Val(data[ret.id].time_from) \div (MinutesPerHour * TicksPerMinute)
           < Val(data[ret.id].time_to) \div (MinutesPerHour * TicksPerMinute)
    /\ Val(data[ret.id].time_to) < Val(_time)

\* a record passes the filters: there are none, or for one of the constraint sets
\* every field it names is absent from the record or has the given value
Passes(row, filters) ==
    \/ filters = <<>>
    \/ \E i \in 1..Len(filters) :
           \A k \in DOMAIN filters[i] : k \notin DOMAIN row \/ row[k] = filters[i][k]

KeyOf(row, group) ==
    [i \in 1..Len(group) |-> IF group[i] \in DOMAIN row THEN Some(row[group[i]]) ELSE None]

\* the keys of the records in the order in which each is first met
RECURSIVE EncounterKeys(_, _)
EncounterKeys(rows, group) ==
    IF rows = <<>> THEN <<>>
    ELSE LET before == EncounterKeys(SubSeq(rows, 1, Len(rows) - 1), group)
             k == KeyOf(rows[Len(rows)], group)
         IN  IF \E j \in 1..Len(before) : before[j] = k THEN before ELSE Append(before, k)

\* C14: the grouping step of stats does not fail on records that lack a group
\* field, and gives one row for each group key, in the order in which the keys
\* are first met in the filtered records
C14_GroupsInEncounterOrder ==
    (ret.op = "stats" /\ ret.df # None /\ Val(ret.df) # <<>>) =>
        /\ ret.raised = "no"
        /\ LET keys == EncounterKeys(Val(ret.df), ret.group)
               rows == Val(ret.rows)
           IN  /\ Len(rows) = Len(keys)
               /\ \A j \in 1..Len(rows) :
                      [i \in 1..Len(ret.group) |-> Some(rows[j].group_key[i])] = keys[j]

\* the bytes of f from the offset p on
Remaining(f, p) == SubSeq(f, p + 1, Len(f))

\* no byte of b belongs to a character of more than one byte
Ascii(b) == \A i \in 1..Len(b) : b[i] \notin {LEAD, CONT}

\* no line of b that matches is received at or after t
AllBefore(b, t) ==
    \A i \in 1..Len(Split(b)) : Matches(Split(b)[i]) => Split(b)[i][1] < t

\* C15: when the file does not end with a newline, its final line is handed to
\* the parser like any other line: in a read that runs to the end of the file
\* every non-empty line from the start offset on is counted
C15_LastLineParsed ==
    (/\ pc = "done" /\ result.kind = "entries"
     /\ file[Len(file)] # NL
     /\ Ascii(Remaining(file, Val(first_pos)))
     /\ AllBefore(Remaining(file, Val(first_pos)), time_to)) =>
        LET lines == Split(Remaining(file, Val(first_pos)))
        IN  num_lines + num_errors = Cardinality({i \in 1..Len(lines) : lines[i] # <<>>})

\* the read as one read of the whole file from the offset p on: its
\* newline-terminated lines, split once, handed to the parser in file order up to
\* the first one received at or after tt
SingleRead(f, p, tt) ==
    LET lines == Split(Chars(Remaining(f, p)))
    IN  ReadLines(SubSeq(lines, 1, Len(lines) - 1), 1, tt,
                  [entries |-> <<>>, num_errors |-> 0, num_lines |-> 0, done |-> FALSE])

\* C16: whatever the chunk size, the read hands to the parser the lines that one
\* read of the whole remaining file would: the same records, and the same
\* numbers of lines that parsed and that failed
C16_ChunkIndependence ==
    (/\ pc \in {"check", "done"}
     /\ first_pos # None
     /\ ValidUtf8(Remaining(file, Val(first_pos)))) =>
        LET whole == SingleRead(file, Val(first_pos), time_to)
        IN  /\ entries = whole.entries
            /\ num_lines = whole.num_lines
            /\ num_errors = whole.num_errors

\* the offset of the last probe of the binary search, and the lines of its chunk
LastProbePos == start + (end - start) \div 2
LastProbeLines == Split(Read(file, LastProbePos, Min(chunk_size, end - start)))

\* the interior lines of the last probe that match and are received at or
\* after time_from
CandidatesAfter ==
    {i \in 2..(Len(LastProbeLines) - 1) :
        /\ Matches(Chars(LastProbeLines[i]))
        /\ LastProbeLines[i][1] >= time_from}

\* C17: when the search has found its answer, first_pos is the byte offset at
\* which the first candidate-after line of the last probed chunk begins, also
\* when unparseable lines come before it in the chunk
C17_FirstPosOfCandidate ==
    (pc \in {"read", "check", "done"} /\ first_pos # None) =>
        /\ CandidatesAfter # {}
        /\ first_pos = Some(LastProbePos + Offset(LastProbeLines,
                CHOOSE i \in CandidatesAfter : \A j \in CandidatesAfter : i <= j))

\* the same, on logs of ASCII bytes whose lines all parse
C17_ParseableAscii ==
    (Ascii(file) /\ AllParse(file)) => C17_FirstPosOfCandidate

\* n halved k times, rounding up
RECURSIVE Halve(_, _)
Halve(n, k) == IF k = 0 THEN n ELSE (Halve(n, k - 1) + 1) \div 2

\* the number of halvings that bring n down to 1 or less
RECURSIVE Log2Ceil(_)
Log2Ceil(n) == IF n <= 1 THEN 0 ELSE 1 + Log2Ceil((n + 1) \div 2)

\* C18: every probe of the binary search that does not break at least halves
\* end - start, so the search makes at most log2(file size) + 1 probes, and a
\* search that ends without a candidate-after line ends in None
C18_SearchTerminates ==
    /\ [](/\ probes <= Log2Ceil(Len(file)) + 1
          /\ pc = "search" => end - start <= Halve(Len(file), probes)
          /\ (pc = "done" /\ first_pos = None) =>
                 result.kind \in {"None", "UnicodeDecodeError"})
    /\ [][(pc = "search" /\ pc' = "search") => end' - start' < end - start]_vars

\* a search of several probes that ended in None
C18_ExhaustedSearch ==
    /\ pc = "done"
    /\ result.kind = "None"
    /\ probes >= 3

\* C19: with the simulated clock stepping by the granularity, every scan for an
\* id begins where the previous scan for that id ended, whatever requests for
\* other ids come in between
C19_AdjacentScans ==
    [][(/\ simulated_time # None
        /\ ret'.scanned
        /\ ret'.raised \notin ScanFailures
        /\ ret'.time_delta = simulated_time_delta
        /\ ret'.id \in DOMAIN data)
       => data'[ret'.id].time_from = data[ret'.id].time_to]_vars

\* C20: a request for an id leaves the entry of every other id as it was and
\* removes no entry, and a stats request served from the cached entry leaves
\* that entry as it was, whatever it filters out
C20_FrameOfRequest ==
    [][/\ \A k \in DOMAIN data :
             /\ k \in DOMAIN data'
             /\ k # ret'.id => data'[k] = data[k]
       /\ (ret'.op = "stats" /\ ~ret'.scanned) => data' = data]_vars

\* with entries cached for both ids, a stats request is served from the cached
\* entry and its filters let only some of the cached records through
C20_FilteredFromCache ==
    /\ DOMAIN data = Ids
    /\ ret.op = "stats" /\ ~ret.scanned
    /\ ret.df # None
    /\ Len(Val(ret.df)) < Len(Val(data[ret.id].data).rows)

====
